---- MODULE Spec2Model ----
(***************************************************************************)
(* skills/iss-position/scripts/get_iss_position.py as a state machine.     *)
(*                                                                         *)
(* One run of main(): parse the arguments, issue the HTTP GET, read the    *)
(* body, parse it as JSON, validate the two coordinates, build the         *)
(* response dictionary, emit it, return the exit code.  Exceptions are     *)
(* values in flight (exc) that the except clauses match by class.          *)
(*                                                                         *)
(* Python values are records of one shape (type, num, s, items) so that    *)
(* bool is an int (True is the int 1), an int has unbounded magnitude, a   *)
(* float is a finite double, nan, inf or -inf, and a dict keeps its        *)
(* insertion order.  A number is written m * 10^e with m not divisible by  *)
(* ten.  A response body is a sequence of JSON tokens, parsed by JsonLoads *)
(* the way json.loads scans it; json.dumps writes tokens back.             *)
(***************************************************************************)
EXTENDS Integers, Sequences, FiniteSets, TLC

VARIABLES pc, args, requests, net, body, payload, position, exc, mainPayload,
          stdout, stderr, exitCode

vars == <<pc, args, requests, net, body, payload, position, exc, mainPayload,
          stdout, stderr, exitCode>>

----------------------------------------------------------------------------
(* Module constants of the script. *)

DEFAULT_REQUEST_TIMEOUT == 15
REQUEST_FAILURE_MESSAGE == "Failed to retrieve ISS position."
INVALID_COORDS_MESSAGE == "ISS API returned invalid latitude/longitude values"

(* Largest decimal exponent of a finite double (sys.float_info.max_10_exp): *)
(* the largest double is 1.7976931348623157e308.                            *)
DBL_MAX_10_EXP == 308

(* Bound of the model: the number of members of a response object. *)
MaxMembers == 2

----------------------------------------------------------------------------
(* Python values. *)

NoNum == [cls |-> "none", m |-> 0, e |-> 0]
Finite(m, e) == [cls |-> "finite", m |-> m, e |-> e]
NaN == [cls |-> "nan", m |-> 0, e |-> 0]
PosInf == [cls |-> "inf", m |-> 1, e |-> 0]
NegInf == [cls |-> "inf", m |-> -1, e |-> 0]

PyNone == [type |-> "NoneType", num |-> NoNum, s |-> <<>>, items |-> <<>>]
PyBool(b) ==
    [type |-> "bool", num |-> Finite(IF b THEN 1 ELSE 0, 0), s |-> <<>>,
     items |-> <<>>]
PyInt(m, e) == [type |-> "int", num |-> Finite(m, e), s |-> <<>>, items |-> <<>>]
PyFloat(n) == [type |-> "float", num |-> n, s |-> <<>>, items |-> <<>>]
PyList(xs) == [type |-> "list", num |-> NoNum, s |-> <<>>, items |-> xs]
PyDict(kvs) == [type |-> "dict", num |-> NoNum, s |-> <<>>, items |-> kvs]

(* A str is a sequence of fragments: literal text, or the repr of a value  *)
(* interpolated by an f-string.                                            *)
Lit(t) == [kind |-> "lit", lit |-> t, val |-> NoNum]
Repr(v) == [kind |-> "repr", lit |-> "", val |-> v.num]
PyStr(frags) == [type |-> "str", num |-> NoNum, s |-> frags, items |-> <<>>]
Text(t) == PyStr(<<Lit(t)>>)

(* dict: pairs in insertion order, keys unique. *)
Pair(k, v) == [k |-> k, v |-> v]
Keys(d) == [i \in 1..Len(d.items) |-> d.items[i].k]
HasKey(d, k) == \E i \in 1..Len(d.items) : d.items[i].k = k
DictGet(d, k, default) ==
    IF HasKey(d, k)
    THEN d.items[CHOOSE i \in 1..Len(d.items) : d.items[i].k = k].v
    ELSE default
DictSet(d, k, v) ==
    IF HasKey(d, k)
    THEN PyDict([i \in 1..Len(d.items) |->
                    IF d.items[i].k = k THEN Pair(k, v) ELSE d.items[i]])
    ELSE PyDict(Append(d.items, Pair(k, v)))

----------------------------------------------------------------------------
(* Exceptions: the class of a raised exception and its message; the        *)
(* classes each class derives from.                                        *)

NoExc == [class |-> "none", msg |-> ""]
Raise(class, msg) == [class |-> class, msg |-> msg]

Bases(class) ==
    CASE class = "HTTPError" -> {"HTTPError", "URLError", "OSError", "Exception"}
      [] class = "URLError" -> {"URLError", "OSError", "Exception"}
      [] class = "TimeoutError" -> {"TimeoutError", "OSError", "Exception"}
      [] class = "ConnectionResetError" ->
            {"ConnectionResetError", "ConnectionError", "OSError", "Exception"}
      [] class = "IncompleteRead" ->
            {"IncompleteRead", "HTTPException", "Exception"}
      [] class = "BadStatusLine" ->
            {"BadStatusLine", "HTTPException", "Exception"}
      [] class = "JSONDecodeError" ->
            {"JSONDecodeError", "ValueError", "Exception"}
      [] class = "UnicodeDecodeError" ->
            {"UnicodeDecodeError", "UnicodeError", "ValueError", "Exception"}
      [] class = "AttributeError" -> {"AttributeError", "Exception"}
      [] class = "OverflowError" ->
            {"OverflowError", "ArithmeticError", "Exception"}
      [] class = "IssApiError" -> {"IssApiError", "RuntimeError", "Exception"}
      [] OTHER -> {}

IsInstanceExc(x, classes) == Bases(x.class) \cap classes # {}

----------------------------------------------------------------------------
(* Numbers: float(str) of a JSON literal and float(int).                   *)

Abs(x) == IF x < 0 THEN -x ELSE x

RECURSIVE Digits(_)
Digits(n) == IF n < 10 THEN 1 ELSE 1 + Digits(n \div 10)

RECURSIVE Pow10(_)
Pow10(k) == IF k = 0 THEN 1 ELSE 10 * Pow10(k - 1)

(* |m * 10^e| rounds to a double above the largest finite one.  The        *)
(* mantissas of the model have at most four digits, so comparing the first *)
(* four digits with 1.798 decides it (1.797e308 is finite, 1.798e308 not). *)
BeyondDouble(m, e) ==
    /\ m # 0
    /\ LET d == Digits(Abs(m))
           order == e + d - 1
       IN  \/ order > DBL_MAX_10_EXP
           \/ order = DBL_MAX_10_EXP /\ Abs(m) * Pow10(4 - d) >= 1798

(* The float json.loads makes of a literal with a fraction or an exponent: *)
(* out of range it is inf or -inf, never an error.                         *)
FloatOfLiteral(m, e) ==
    IF BeyondDouble(m, e)
    THEN PyFloat(IF m < 0 THEN NegInf ELSE PosInf)
    ELSE PyFloat(Finite(m, e))

Returned(v) == [exc |-> NoExc, val |-> v]
Raised(x) == [exc |-> x, val |-> PyNone]

(* float(x) for an x that passed the isinstance check: an int (or bool)    *)
(* converts exactly or raises OverflowError, a float is returned as it is. *)
FloatOf(x) ==
    IF x.type = "float" THEN Returned(x)
    ELSE IF BeyondDouble(x.num.m, x.num.e)
         THEN Raised(Raise("OverflowError", "int too large to convert to float"))
         ELSE Returned(PyFloat(x.num))

(* isinstance(x, (int, float)): bool is a subclass of int. *)
IsNumeric(x) == x.type \in {"int", "bool", "float"}

----------------------------------------------------------------------------
(* JSON text: tokens, json.loads and json.dumps.                           *)

(* A token: its kind, its text (the fragments of a string, the name of a   *)
(* literal) and, for a number, m and e.                                    *)
Tok(t, s, m, e) == [t |-> t, s |-> s, m |-> m, e |-> e]
LBrace == Tok("{", <<>>, 0, 0)
RBrace == Tok("}", <<>>, 0, 0)
LBrack == Tok("[", <<>>, 0, 0)
RBrack == Tok("]", <<>>, 0, 0)
Colon == Tok(":", <<>>, 0, 0)
Comma == Tok(",", <<>>, 0, 0)
TFrags(frags) == Tok("string", frags, 0, 0)
TStr(t) == TFrags(<<Lit(t)>>)
TInt(m, e) == Tok("int", <<>>, m, e)
TFloat(m, e) == Tok("float", <<>>, m, e)
TLit(t) == Tok("literal", <<Lit(t)>>, 0, 0)
Junk == Tok("junk", <<Lit("<")>>, 0, 0)

(* The key a string token spells (keys are plain text). *)
KeyOf(tok) == IF Len(tok.s) = 1 THEN tok.s[1].lit ELSE ""

ParseOk(v, next) == [ok |-> TRUE, val |-> v, next |-> next]
ParseFail == [ok |-> FALSE, val |-> PyNone, next |-> 0]

(* parse_constant and the scanner's literals; NaN, Infinity and -Infinity  *)
(* are accepted by default.                                                *)
LiteralValue(s) ==
    CASE s = "true" -> PyBool(TRUE)
      [] s = "false" -> PyBool(FALSE)
      [] s = "null" -> PyNone
      [] s = "NaN" -> PyFloat(NaN)
      [] s = "Infinity" -> PyFloat(PosInf)
      [] s = "-Infinity" -> PyFloat(NegInf)

RECURSIVE ParseValue(_, _), ParseMembers(_, _, _), ParseElements(_, _, _)

ParseValue(toks, i) ==
    IF i > Len(toks) THEN ParseFail
    ELSE LET tok == toks[i] IN
         CASE tok.t = "string" -> ParseOk(PyStr(tok.s), i + 1)
           [] tok.t = "int" -> ParseOk(PyInt(tok.m, tok.e), i + 1)
           [] tok.t = "float" -> ParseOk(FloatOfLiteral(tok.m, tok.e), i + 1)
           [] tok.t = "literal" -> ParseOk(LiteralValue(KeyOf(tok)), i + 1)
           [] tok.t = "{" ->
                IF i + 1 <= Len(toks) /\ toks[i + 1].t = "}"
                THEN ParseOk(PyDict(<<>>), i + 2)
                ELSE ParseMembers(toks, i + 1, PyDict(<<>>))
           [] tok.t = "[" ->
                IF i + 1 <= Len(toks) /\ toks[i + 1].t = "]"
                THEN ParseOk(PyList(<<>>), i + 2)
                ELSE ParseElements(toks, i + 1, <<>>)
           [] OTHER -> ParseFail

(* key ":" value, then "," and another member, or "}".  A repeated key     *)
(* keeps its place and takes the last value.                               *)
ParseMembers(toks, i, d) ==
    IF i + 1 > Len(toks) \/ toks[i].t # "string" \/ toks[i + 1].t # ":"
    THEN ParseFail
    ELSE LET r == ParseValue(toks, i + 2) IN
         IF ~r.ok \/ r.next > Len(toks) THEN ParseFail
         ELSE LET d2 == DictSet(d, KeyOf(toks[i]), r.val) IN
              CASE toks[r.next].t = "," -> ParseMembers(toks, r.next + 1, d2)
                [] toks[r.next].t = "}" -> ParseOk(d2, r.next + 1)
                [] OTHER -> ParseFail

ParseElements(toks, i, xs) ==
    LET r == ParseValue(toks, i) IN
    IF ~r.ok \/ r.next > Len(toks) THEN ParseFail
    ELSE CASE toks[r.next].t = "," ->
                ParseElements(toks, r.next + 1, Append(xs, r.val))
           [] toks[r.next].t = "]" -> ParseOk(PyList(Append(xs, r.val)), r.next + 1)
           [] OTHER -> ParseFail

(* json.loads(bytes): decode, scan one value, reject anything after it. *)
JsonLoads(b) ==
    IF ~b.utf8
    THEN Raised(Raise("UnicodeDecodeError", "invalid start byte"))
    ELSE LET r == ParseValue(b.toks, 1) IN
         IF r.ok /\ r.next = Len(b.toks) + 1
         THEN Returned(r.val)
         ELSE Raised(Raise("JSONDecodeError", "Expecting value"))

(* json.dumps of a scalar or of a dict of scalars, keys in insertion       *)
(* order; allow_nan is left at its default, so nan and inf are written as  *)
(* NaN, Infinity and -Infinity.                                            *)
DumpScalar(v) ==
    CASE v.type = "str" -> <<TFrags(v.s)>>
      [] v.type = "int" -> <<TInt(v.num.m, v.num.e)>>
      [] v.type = "bool" -> <<TLit(IF v.num.m = 1 THEN "true" ELSE "false")>>
      [] v.type = "NoneType" -> <<TLit("null")>>
      [] v.type = "float" ->
            CASE v.num.cls = "finite" -> <<TFloat(v.num.m, v.num.e)>>
              [] v.num.cls = "nan" -> <<TLit("NaN")>>
              [] v.num.cls = "inf" ->
                    <<TLit(IF v.num.m < 0 THEN "-Infinity" ELSE "Infinity")>>

RECURSIVE DumpMembers(_, _)
DumpMembers(kvs, i) ==
    IF i > Len(kvs) THEN <<>>
    ELSE (IF i > 1 THEN <<Comma>> ELSE <<>>)
         \o <<TStr(kvs[i].k), Colon>> \o DumpScalar(kvs[i].v)
         \o DumpMembers(kvs, i + 1)

JsonDumps(d) == <<LBrace>> \o DumpMembers(d.items, 1) \o <<RBrace>>

----------------------------------------------------------------------------
(* fetch_current_position *)

(* except (urllib.error.URLError, OSError) around urlopen, read and        *)
(* json.loads: what leaves the try statement when x is raised inside it.   *)
(* Variants of the except clause: one that names URLError alone, one that  *)
(* also names ValueError.                                                  *)
FetchCatchesURLErrorOnly(x) == IsInstanceExc(x, {"URLError"})
FetchCatchesValueErrorToo(x) ==
    IsInstanceExc(x, {"URLError", "OSError", "ValueError"})

FetchCatches(x) == IsInstanceExc(x, {"URLError", "OSError"})
FetchExcept(x) ==
    IF FetchCatches(x) THEN Raise("IssApiError", REQUEST_FAILURE_MESSAGE) ELSE x

IssPosition(lat, lon) == PyDict(<<Pair("latitude", lat), Pair("longitude", lon)>>)

(* The statements after the try: the two payload.get calls, the isinstance *)
(* test and the two float() conversions, latitude first.                   *)
FetchValidate(p) ==
    IF p.type # "dict"
    THEN Raised(Raise("AttributeError", "object has no attribute 'get'"))
    ELSE LET latitude == DictGet(p, "latitude", PyNone)
             longitude == DictGet(p, "longitude", PyNone)
         IN  IF ~IsNumeric(latitude) \/ ~IsNumeric(longitude)
             THEN Raised(Raise("IssApiError", INVALID_COORDS_MESSAGE))
             ELSE LET flat == FloatOf(latitude)
                      flon == FloatOf(longitude)
                  IN  IF flat.exc # NoExc THEN Raised(flat.exc)
                      ELSE IF flon.exc # NoExc THEN Raised(flon.exc)
                      ELSE Returned(IssPosition(flat.val, flon.val))

----------------------------------------------------------------------------
(* main and its helpers *)

(* A variant that reads the two coordinates the wrong way round. *)
SuccessResponseSwapped(pos) ==
    LET latitude == DictGet(pos, "longitude", PyNone)
        longitude == DictGet(pos, "latitude", PyNone)
    IN  PyDict(<<Pair("status", Text("success")),
                 Pair("latitude", latitude),
                 Pair("longitude", longitude),
                 Pair("message",
                      PyStr(<<Lit("The ISS is currently at latitude "),
                              Repr(latitude), Lit(" and longitude "),
                              Repr(longitude), Lit(".")>>))>>)

SuccessResponse(pos) ==
    LET latitude == DictGet(pos, "latitude", PyNone)
        longitude == DictGet(pos, "longitude", PyNone)
    IN  PyDict(<<Pair("status", Text("success")),
                 Pair("latitude", latitude),
                 Pair("longitude", longitude),
                 Pair("message",
                      PyStr(<<Lit("The ISS is currently at latitude "),
                              Repr(latitude), Lit(" and longitude "),
                              Repr(longitude), Lit(".")>>))>>)

ErrorResponse(message) ==
    PyDict(<<Pair("status", Text("error")), Pair("message", Text(message))>>)

(* A line written by print: the tokens of a JSON document or plain text. *)
JsonLine(toks) == [kind |-> "json", toks |-> toks, text |-> <<>>]
TextLine(frags) == [kind |-> "text", toks |-> <<>>, text |-> frags]

(* A variant whose last print lacks file=sys.stderr. *)
EmitErrorToStdout(p, output_format) ==
    IF output_format = "json"
    THEN [out |-> <<JsonLine(JsonDumps(p))>>, err |-> <<>>]
    ELSE IF DictGet(p, "status", PyNone) = Text("success")
         THEN [out |-> <<TextLine(DictGet(p, "message", PyNone).s)>>, err |-> <<>>]
         ELSE [out |-> <<TextLine(<<Lit("Error: ")>>
                                  \o DictGet(p, "message", Text("Unknown error")).s)>>,
               err |-> <<>>]

(* _emit: what it appends to standard output and to standard error. *)
Emit(p, output_format) ==
    IF output_format = "json"
    THEN [out |-> <<JsonLine(JsonDumps(p))>>, err |-> <<>>]
    ELSE IF DictGet(p, "status", PyNone) = Text("success")
         THEN [out |-> <<TextLine(DictGet(p, "message", PyNone).s)>>, err |-> <<>>]
         ELSE [out |-> <<>>,
               err |-> <<TextLine(<<Lit("Error: ")>>
                                  \o DictGet(p, "message", Text("Unknown error")).s)>>]

(* except IssApiError in main. *)
MainCatches(x) == IsInstanceExc(x, {"IssApiError"})

(* The values main returns; FailureExitAsSuccess is the except branch     *)
(* returning what the last line returns.                                   *)
SuccessExit == 0
FailureExitAsSuccess == SuccessExit
FailureExit == 1

----------------------------------------------------------------------------
(* The environment: the command line, the network and the server.  The     *)
(* command line is one argparse accepts.                                   *)

Formats == {"text", "json"}
Timeouts == {DEFAULT_REQUEST_TIMEOUT, 1}

(* How the request can fail before a response is available, and the        *)
(* exception urlopen raises for it: urllib wraps the errors of connecting  *)
(* and sending in URLError, an error status is an HTTPError, the errors of *)
(* reading the status line are raised as they are.                         *)
ConnectFailures ==
    {"dns", "refused", "connect_timeout", "reset", "timeout", "http_status",
     "bad_status_line"}
ConnectError(cause) ==
    CASE cause \in {"dns", "refused", "connect_timeout"} ->
            Raise("URLError", cause)
      [] cause = "reset" -> Raise("ConnectionResetError", cause)
      [] cause = "timeout" -> Raise("TimeoutError", cause)
      [] cause = "http_status" -> Raise("HTTPError", cause)
      [] cause = "bad_status_line" -> Raise("BadStatusLine", cause)

(* How response.read() can fail, and the exception it raises. *)
ReadFailures == {"reset", "timeout", "truncated"}
ReadError(cause) ==
    CASE cause = "reset" -> Raise("ConnectionResetError", cause)
      [] cause = "timeout" -> Raise("TimeoutError", cause)
      [] cause = "truncated" -> Raise("IncompleteRead", cause)

(* The failures of the transport (a name not resolved, a connection        *)
(* refused, reset or timed out), as opposed to those of the HTTP exchange  *)
(* carried over it (an error status, a status line or a body that breaks   *)
(* the framing).                                                           *)
TransportFailures == {"dns", "refused", "connect_timeout", "reset", "timeout"}

NoNet == [stage |-> "none", cause |-> "none"]

(* Response bodies.  A coordinate can be written as the integer -200, the  *)
(* float 51.6, the integer 10^400, the float 1e400, NaN, true, null or the *)
(* string "51.6".                                                          *)
ValueTexts ==
    {<<TInt(-2, 2)>>, <<TFloat(516, -1)>>, <<TInt(1, 400)>>, <<TFloat(1, 400)>>,
     <<TLit("NaN")>>, <<TLit("true")>>, <<TLit("null")>>, <<TStr("51.6")>>}
MemberKeys == {"latitude", "longitude", "altitude"}
Members == {<<TStr(k), Colon>> \o v : k \in MemberKeys, v \in ValueTexts}

RECURSIVE JoinMembers(_, _)
JoinMembers(ms, i) ==
    IF i > Len(ms) THEN <<>>
    ELSE (IF i > 1 THEN <<Comma>> ELSE <<>>) \o ms[i] \o JoinMembers(ms, i + 1)

ObjectText(ms) == <<LBrace>> \o JoinMembers(ms, 1) \o <<RBrace>>

ObjectTexts ==
    UNION {{ObjectText(ms) : ms \in [1..n -> Members]} : n \in 0..MaxMembers}

(* Valid JSON that is no object. *)
OtherTexts ==
    {<<LBrack, RBrack>>, <<LBrack, TInt(1, 0), Comma, TInt(2, 0), RBrack>>,
     <<TInt(3, 0)>>, <<TFloat(516, -1)>>, <<TStr("latitude")>>, <<TLit("true")>>,
     <<TLit("null")>>}

(* Text json.loads rejects: nothing, an HTML page, a truncated object, a   *)
(* trailing comma, text after the value, a value where a key belongs.      *)
MalformedTexts ==
    {<<>>, <<Junk>>, <<LBrace, TStr("latitude"), Colon>>,
     <<LBrace, TStr("latitude"), Colon, TInt(1, 0), Comma, RBrace>>,
     <<LBrace, RBrace, Junk>>, <<LBrace, TInt(1, 0), RBrace>>,
     <<LBrack, TInt(1, 0), Comma, RBrack>>}

Bodies ==
    {[utf8 |-> TRUE, toks |-> t] : t \in ObjectTexts \cup OtherTexts \cup MalformedTexts}
    \cup {[utf8 |-> FALSE, toks |-> <<>>]}

NoBody == [utf8 |-> TRUE, toks |-> <<>>]

(* A local variable that has not been assigned. *)
Unset == [type |-> "unset", num |-> NoNum, s |-> <<>>, items |-> <<>>]
NoArgs == [format |-> "", timeout |-> 0]

----------------------------------------------------------------------------
(* The run. *)

Init ==
    /\ pc = "start"
    /\ args = NoArgs
    /\ requests = 0
    /\ net = NoNet
    /\ body = NoBody
    /\ payload = Unset
    /\ position = Unset
    /\ exc = NoExc
    /\ mainPayload = Unset
    /\ stdout = <<>>
    /\ stderr = <<>>
    /\ exitCode = <<>>

(* args = _parse_args() *)
ParseArgs ==
    /\ pc = "start"
    /\ \E f \in Formats, t \in Timeouts : args' = [format |-> f, timeout |-> t]
    /\ pc' = "urlopen"
    /\ UNCHANGED <<requests, net, body, payload, position, exc, mainPayload,
                   stdout, stderr, exitCode>>

(* A variant that tries a failed request a second time. *)
UrlopenRetry ==
    /\ pc = "urlopen"
    /\ requests' = requests + 1
    /\ \/ /\ net' = [stage |-> "connect", cause |-> "ok"]
          /\ pc' = "read"
          /\ exc' = exc
       \/ \E cause \in ConnectFailures :
             /\ net' = [stage |-> "connect", cause |-> cause]
             /\ IF requests = 0
                THEN pc' = "urlopen" /\ exc' = exc
                ELSE pc' = "raised" /\ exc' = FetchExcept(ConnectError(cause))
    /\ UNCHANGED <<args, body, payload, position, mainPayload, stdout, stderr,
                   exitCode>>

(* urllib.request.urlopen(API_URL, timeout=timeout): the one GET. *)
Urlopen ==
    /\ pc = "urlopen"
    /\ requests' = requests + 1
    /\ \/ /\ net' = [stage |-> "connect", cause |-> "ok"]
          /\ pc' = "read"
          /\ exc' = exc
       \/ \E cause \in ConnectFailures :
             /\ net' = [stage |-> "connect", cause |-> cause]
             /\ exc' = FetchExcept(ConnectError(cause))
             /\ pc' = "raised"
    /\ UNCHANGED <<args, body, payload, position, mainPayload, stdout, stderr,
                   exitCode>>

(* response.read() *)
ResponseRead ==
    /\ pc = "read"
    /\ \/ \E b \in Bodies :
             /\ body' = b
             /\ net' = [stage |-> "read", cause |-> "ok"]
             /\ pc' = "loads"
             /\ exc' = exc
       \/ \E cause \in ReadFailures :
             /\ net' = [stage |-> "read", cause |-> cause]
             /\ exc' = FetchExcept(ReadError(cause))
             /\ pc' = "raised"
             /\ body' = body
    /\ UNCHANGED <<args, requests, payload, position, mainPayload, stdout,
                   stderr, exitCode>>

(* payload = json.loads(...) *)
Loads ==
    /\ pc = "loads"
    /\ LET r == JsonLoads(body) IN
       IF r.exc = NoExc
       THEN /\ payload' = r.val
            /\ pc' = "validate"
            /\ exc' = exc
       ELSE /\ exc' = FetchExcept(r.exc)
            /\ pc' = "raised"
            /\ payload' = payload
    /\ UNCHANGED <<args, requests, net, body, position, mainPayload, stdout,
                   stderr, exitCode>>

(* The rest of fetch_current_position: it returns a position or raises. *)
Validate ==
    /\ pc = "validate"
    /\ LET r == FetchValidate(payload) IN
       IF r.exc = NoExc
       THEN /\ position' = r.val
            /\ pc' = "fetched"
            /\ exc' = exc
       ELSE /\ exc' = r.exc
            /\ pc' = "raised"
            /\ position' = position
    /\ UNCHANGED <<args, requests, net, body, payload, mainPayload, stdout,
                   stderr, exitCode>>

(* main, no exception: payload = _success_response(...); _emit; return 0 *)
MainSuccess ==
    /\ pc = "fetched"
    /\ mainPayload' = SuccessResponse(position)
    /\ LET w == Emit(mainPayload', args.format) IN
          /\ stdout' = stdout \o w.out
          /\ stderr' = stderr \o w.err
    /\ exitCode' = <<SuccessExit>>
    /\ pc' = "returned"
    /\ UNCHANGED <<args, requests, net, body, payload, position, exc>>

(* main, except IssApiError: payload = _error_response(str(exc)); _emit;   *)
(* return 1                                                                *)
MainExcept ==
    /\ pc = "raised"
    /\ MainCatches(exc)
    /\ mainPayload' = ErrorResponse(exc.msg)
    /\ LET w == Emit(mainPayload', args.format) IN
          /\ stdout' = stdout \o w.out
          /\ stderr' = stderr \o w.err
    /\ exitCode' = <<FailureExit>>
    /\ pc' = "returned"
    /\ UNCHANGED <<args, requests, net, body, payload, position, exc>>

(* main, any other exception: it leaves main unhandled. *)
Propagate ==
    /\ pc = "raised"
    /\ ~MainCatches(exc)
    /\ pc' = "fault"
    /\ UNCHANGED <<args, requests, net, body, payload, position, exc,
                   mainPayload, stdout, stderr, exitCode>>

Next ==
    \/ ParseArgs
    \/ Urlopen
    \/ ResponseRead
    \/ Loads
    \/ Validate
    \/ MainSuccess
    \/ MainExcept
    \/ Propagate

Spec == Init /\ [][Next]_vars

----------------------------------------------------------------------------
(* The result of the fetch, read off the state. *)

FetchSuccess == position # Unset
Failure(m) == exc = Raise("IssApiError", m)
FetchFailure == exc.class = "IssApiError"
FetchFault == exc # NoExc /\ exc.class # "IssApiError"
RunState ==
    CASE FetchSuccess -> "success"
      [] FetchFailure -> "failure"
      [] FetchFault -> "fault"
      [] OTHER -> "pending"

(* json.loads returned and the statements after the try have run. *)
Validated == payload # Unset /\ pc # "validate"
Terminated == pc \in {"returned", "fault"}
Outputs == Len(stdout) + Len(stderr)

Latitude == DictGet(payload, "latitude", PyNone)
Longitude == DictGet(payload, "longitude", PyNone)

(* The values the claims tell apart: what is no coordinate, what is a JSON *)
(* number.                                                                 *)
NotACoordinate(v) == v.type \in {"str", "bool", "NoneType"}
IsJsonNumber(v) == v.type \in {"int", "float"}

(* The body was read and json.loads has run on it. *)
BodyRead == net = [stage |-> "read", cause |-> "ok"] /\ pc # "loads"

(* What was written, and the object a written JSON line spells. *)
Emitted == stdout \o stderr
EmittedObject == JsonLoads([utf8 |-> TRUE, toks |-> Emitted[1].toks]).val

(* The message of a success, as the claims word it. *)
SuccessMessage(lat, lon) ==
    PyStr(<<Lit("The ISS is currently at latitude "), Repr(lat),
            Lit(" and longitude "), Repr(lon), Lit(".")>>)

(* A written line shows a position or a success: a number, an interpolated *)
(* value, a true or false, or one of the words of a success response.      *)
FragsShowPosition(frags) ==
    \E i \in 1..Len(frags) :
        \/ frags[i].kind = "repr"
        \/ frags[i].lit \in {"success", "latitude", "longitude",
                             "The ISS is currently at latitude "}
LineShowsPosition(line) ==
    \/ FragsShowPosition(line.text)
    \/ \E i \in 1..Len(line.toks) :
          \/ line.toks[i].t \in {"int", "float"}
          \/ line.toks[i].t = "literal" /\ KeyOf(line.toks[i]) # "null"
          \/ FragsShowPosition(line.toks[i].s)

----------------------------------------------------------------------------
(* C1: for any payload in which the key latitude or the key longitude is   *)
(* missing, or in which either value is a string, a boolean or null, the   *)
(* fetch ends in Failure with the invalid-coordinates message and returns  *)
(* no position.                                                            *)
C1_InvalidCoordinatesFail ==
    (/\ Validated
     /\ payload.type = "dict"
     /\ \/ ~HasKey(payload, "latitude")
        \/ ~HasKey(payload, "longitude")
        \/ NotACoordinate(Latitude)
        \/ NotACoordinate(Longitude))
    => Failure(INVALID_COORDS_MESSAGE) /\ ~FetchSuccess

(* C2: for every valid JSON payload whose latitude and longitude are both  *)
(* numbers, the fetch returns Success carrying exactly those two values    *)
(* coerced to floating point, each in its own field, whatever their range. *)
C2_NumericCoordinatesSucceed ==
    (/\ Validated
     /\ payload.type = "dict"
     /\ HasKey(payload, "latitude") /\ IsJsonNumber(Latitude)
     /\ HasKey(payload, "longitude") /\ IsJsonNumber(Longitude))
    => position = PyDict(<<Pair("latitude", PyFloat(Latitude.num)),
                           Pair("longitude", PyFloat(Longitude.num))>>)

(* C7: every position the fetch returns has a finite latitude and a finite *)
(* longitude, never NaN, +Infinity or -Infinity.                           *)
C7_PositionIsFinite ==
    FetchSuccess =>
        /\ DictGet(position, "latitude", PyNone).num.cls = "finite"
        /\ DictGet(position, "longitude", PyNone).num.cls = "finite"

(* C10: when the transport succeeds and the body is valid JSON of any      *)
(* shape, the fetch ends in exactly one of Success or Failure with one of  *)
(* the two fixed messages; only malformed JSON lets a fault escape.        *)
C10_ValidJsonNeverFaults ==
    /\ Validated =>
          /\ FetchSuccess \/ FetchFailure
          /\ ~(FetchSuccess /\ FetchFailure)
          /\ FetchFailure =>
                exc.msg \in {REQUEST_FAILURE_MESSAGE, INVALID_COORDS_MESSAGE}
    /\ (FetchFault /\ net = [stage |-> "read", cause |-> "ok"])
          => JsonLoads(body).exc # NoExc

(* C3: whenever the request fails at the transport level (DNS, connection  *)
(* refused or reset, timeout), while connecting or while reading the body, *)
(* the fetch ends in Failure with the request-failure message, no payload  *)
(* is looked at, and the invalid-coordinates message is never the result.  *)
C3_TransportFailureMessage ==
    net.cause \in TransportFailures =>
        /\ Failure(REQUEST_FAILURE_MESSAGE)
        /\ ~FetchSuccess
        /\ payload = Unset
        /\ pc \in {"raised", "returned"}
        /\ pc = "returned" => mainPayload = ErrorResponse(REQUEST_FAILURE_MESSAGE)

C3_Witness ==
    /\ net = [stage |-> "read", cause |-> "timeout"]
    /\ pc = "returned"
    /\ Failure(REQUEST_FAILURE_MESSAGE)

(* C4: in both formats main returns 0 exactly when the fetch ended in      *)
(* Success and 1 whenever it ended in a Failure; before main returns there *)
(* is no exit code, and the format does not enter into it.                 *)
C4_ExitCode ==
    /\ pc # "returned" => exitCode = <<>>
    /\ pc = "returned" =>
          /\ exitCode \in {<<0>>, <<1>>}
          /\ exitCode = <<0>> <=> FetchSuccess
          /\ FetchFailure => exitCode = <<1>>
          /\ FetchSuccess \/ FetchFailure

C4_Witness ==
    /\ pc = "returned"
    /\ args.format = "text"
    /\ Failure(INVALID_COORDS_MESSAGE)
    /\ exitCode = <<1>>

(* C5: the emitted content is determined by the result and the format.    *)
(* Success/json: an object with exactly status = "success", latitude,      *)
(* longitude and message; Success/text: only the message; Failure(m)/json: *)
(* an object with exactly status = "error" and message = m;                *)
(* Failure(m)/text: "Error: m".                                            *)
C5_EmittedContent ==
    pc = "returned" =>
        /\ Len(Emitted) = 1
        /\ Emitted[1].kind = args.format
        /\ LET lat == DictGet(position, "latitude", PyNone)
               lon == DictGet(position, "longitude", PyNone)
           IN  /\ (FetchSuccess /\ args.format = "json") =>
                     /\ Keys(EmittedObject)
                            = <<"status", "latitude", "longitude", "message">>
                     /\ DictGet(EmittedObject, "status", PyNone) = Text("success")
                     /\ DictGet(EmittedObject, "latitude", PyNone) = lat
                     /\ DictGet(EmittedObject, "longitude", PyNone) = lon
                     /\ DictGet(EmittedObject, "message", PyNone)
                            = SuccessMessage(lat, lon)
               /\ (FetchSuccess /\ args.format = "text") =>
                     Emitted[1].text = SuccessMessage(lat, lon).s
               /\ (FetchFailure /\ args.format = "json") =>
                     /\ Keys(EmittedObject) = <<"status", "message">>
                     /\ DictGet(EmittedObject, "status", PyNone) = Text("error")
                     /\ DictGet(EmittedObject, "message", PyNone) = Text(exc.msg)
               /\ (FetchFailure /\ args.format = "text") =>
                     Emitted[1].text = <<Lit("Error: "), Lit(exc.msg)>>

C5_Witness ==
    /\ pc = "returned"
    /\ FetchSuccess
    /\ args.format = "json"
    /\ DictGet(position, "latitude", PyNone) = PyFloat(Finite(516, -1))
    /\ DictGet(position, "longitude", PyNone) = PyFloat(Finite(-2, 2))

(* C6: standard error is written only for a Failure in text format, and    *)
(* then nothing is written to standard output; in the three other cases    *)
(* the output goes to standard output and nothing to standard error.  On a *)
(* Failure no success message and no position is printed.                  *)
C6_OutputStreams ==
    /\ stderr # <<>> => FetchFailure /\ args.format = "text" /\ stdout = <<>>
    /\ (pc = "returned" /\ FetchFailure /\ args.format = "text") =>
          Len(stderr) = 1 /\ stdout = <<>>
    /\ (pc = "returned" /\ ~(FetchFailure /\ args.format = "text")) =>
          Len(stdout) = 1 /\ stderr = <<>>
    /\ ~FetchSuccess =>
          \A i \in 1..Len(Emitted) : ~LineShowsPosition(Emitted[i])

C6_Witness ==
    /\ pc = "returned"
    /\ FetchFailure
    /\ args.format = "text"
    /\ Len(stderr) = 1

(* C8: when the transport succeeds but the body is not valid JSON, the     *)
(* fault is not turned into a Failure: it leaves fetch_current_position    *)
(* and main unhandled, and main emits nothing in either format.            *)
C8_MalformedJsonPropagates ==
    (BodyRead /\ JsonLoads(body).exc # NoExc) =>
        /\ exc = JsonLoads(body).exc
        /\ "ValueError" \in Bases(exc.class)
        /\ "IssApiError" \notin Bases(exc.class)
        /\ pc \in {"raised", "fault"}
        /\ pc = "raised" => ENABLED Propagate /\ ~ENABLED MainExcept
        /\ payload = Unset /\ position = Unset /\ mainPayload = Unset
        /\ stdout = <<>> /\ stderr = <<>> /\ exitCode = <<>>

C8_Witness ==
    /\ pc = "fault"
    /\ exc.class = "JSONDecodeError"
    /\ body.toks = <<Junk>>
    /\ Outputs = 0

(* C9 as stated: a single attempt, at most one GET, and every run moves    *)
(* from pending to exactly one of success or failure and then emits        *)
(* exactly one output.                                                     *)
C9_EveryRunEmitsOnce ==
    /\ requests <= 1
    /\ RunState = "pending" => Outputs = 0
    /\ Terminated => RunState \in {"success", "failure"} /\ Outputs = 1

(* C9 amended: a single attempt, at most one GET, never retried; the run   *)
(* moves from pending to exactly one of success, failure or an unhandled   *)
(* fault and stays there; on success or failure it emits exactly one       *)
(* output, on a fault none; once main has ended nothing changes.           *)
C9_SingleAttempt ==
    /\ [](/\ requests <= 1
          /\ Outputs <= 1
          /\ RunState = "pending" => Outputs = 0
          /\ pc = "returned" => RunState \in {"success", "failure"} /\ Outputs = 1
          /\ pc = "fault" => RunState = "fault" /\ Outputs = 0
          /\ RunState # "pending" => requests = 1)
    /\ [][/\ requests' >= requests
          /\ RunState # "pending" => RunState' = RunState /\ requests' = requests
          /\ Outputs' >= Outputs
          /\ ~Terminated]_vars

C9_Witness ==
    /\ pc = "fault"
    /\ requests = 1
    /\ RunState = "fault"
    /\ exc.class = "JSONDecodeError"
    /\ body = [utf8 |-> TRUE, toks |-> <<>>]
    /\ Outputs = 0

====
